---- MODULE Spec2Model ----
(***************************************************************************)
(* A model of the transit front-end's route registry (RoutesManager), its  *)
(* GeoJSON conversion, the useRoutes hook and the Map component's          *)
(* updateRoutes retry logic.                                               *)
(*                                                                         *)
(* JavaScript objects are functions from field names to values; a field    *)
(* that is missing from the DOMAIN is `undefined`.  Numbers are integers   *)
(* plus the value NaN, for which every comparison is false.                *)
(***************************************************************************)
EXTENDS Integers, Sequences, FiniteSets, TLC

VARIABLES
  routes,       \* RoutesManager.routes: the Map<string, Route>, as its entries in insertion order
  last,         \* the call that produced this state: [op, arg, threw, ret]
  mapRef,       \* Map.tsx mapRef.current: TRUE when a map instance exists, FALSE for null
  isMapReadyRef,\* Map.tsx isMapReadyRef.current
  styleLoaded,  \* what map.isStyleLoaded() answers for the current instance
  loadFired,    \* whether the current instance's 'load' event has fired
  hasSource,    \* whether the current instance has its 'routes' source
  sourceData,   \* the data last set on the 'routes' source
  onceLoad,     \* listeners registered with map.once('load', ...), in order
  timers,       \* pending setTimeout callbacks, in the order they were set
  owed,         \* history: the earliest payload given to updateRoutes while the source was missing and not set since (at most one)
  hookHist,     \* history: "none", "onLoaded" (every hook mutation so far ran on the loaded map), "other"
  daData,       \* the data last set on the 'da-boundaries' source
  daOnceLoad,   \* listeners registered with map.once('load', ...) by loadDABoundaries, in order
  daOwed,       \* history: the boundaries given to loadDABoundaries on this map and not set since
  calls         \* history: how many calls of updateRoutes this map has taken

daVars == << daData, daOnceLoad, daOwed, calls >>

vars == << routes, last, mapRef, isMapReadyRef, styleLoaded, loadFired, hasSource,
           sourceData, onceLoad, timers, owed, hookHist, daVars >>

mapVars == << mapRef, isMapReadyRef, styleLoaded, loadFired, hasSource,
              sourceData, onceLoad, timers, owed, hookHist, daVars >>

----------------------------------------------------------------------------
(* Bounds of the model *)

MaxBatch == 2      \* longest array given to addRoutes / removeRoutes / the constructor
MaxPending == 2    \* most timers plus 'load' listeners pending at once

----------------------------------------------------------------------------
(* JavaScript values *)

\* The number NaN: typeof NaN === 'number', and NaN < x, NaN > x are both false.
NaN == 99999

LngMax == 180
LatMax == 90
DefaultLineWidth == 4
DefaultColor == "#FF0000"

Lt(a, b) == a # NaN /\ b # NaN /\ a < b
Gt(a, b) == a # NaN /\ b # NaN /\ a > b

Has(o, f) == f \in DOMAIN o

\* { ...a, ...b }
Spread(a, b) ==
  [f \in (DOMAIN a) \cup (DOMAIN b) |-> IF f \in DOMAIN b THEN b[f] ELSE a[f]]

\* An object with no fields
EmptyObj == [f \in {} |-> 0]

\* !s for a string-or-undefined field
FalsyStr(o, f) == ~Has(o, f) \/ o[f] = ""

\* !n for a number-or-undefined field
FalsyNum(o, f) == ~Has(o, f) \/ o[f] = 0 \/ o[f] = NaN

----------------------------------------------------------------------------
(* The Map<string, Route> of the registry: entries [key, value] in insertion order *)

mapHas(rs, k) == \E i \in DOMAIN rs : rs[i].key = k

mapGet(rs, k) == rs[CHOOSE i \in DOMAIN rs : rs[i].key = k].value

mapSet(rs, k, v) ==
  IF mapHas(rs, k)
    THEN [i \in DOMAIN rs |-> IF rs[i].key = k THEN [key |-> k, value |-> v] ELSE rs[i]]
    ELSE Append(rs, [key |-> k, value |-> v])

mapDelete(rs, k) == SelectSeq(rs, LAMBDA e : e.key # k)

----------------------------------------------------------------------------
(* RoutesManager *)

\* validateRoute: the message of the error it throws, or "" when it returns
validateRoute(route) ==
  IF ~Has(route, "coordinates") \/ Len(route.coordinates) < 2
    THEN "Route must have at least 2 coordinates"
  ELSE LET cs == route.coordinates
           bad == {i \in DOMAIN cs :
                      \/ Len(cs[i]) # 2
                      \/ Lt(cs[i][1], 0 - LngMax) \/ Gt(cs[i][1], LngMax)
                      \/ Lt(cs[i][2], 0 - LatMax) \/ Gt(cs[i][2], LatMax)}
       IN IF bad = {} THEN ""
          ELSE LET c == cs[CHOOSE i \in bad : \A j \in bad : i <= j]
               IN IF Len(c) # 2 THEN "Each coordinate must be [longitude, latitude]"
                  ELSE IF Lt(c[1], 0 - LngMax) \/ Gt(c[1], LngMax)
                    THEN "Longitude must be between -180 and 180"
                  ELSE "Latitude must be between -90 and 90"

\* addRoute without its duplicate check: set() overwrites the stored route
addRoute_NoDuplicateCheck(rs, route) ==
  IF FalsyStr(route, "id")
    THEN [routes |-> rs, err |-> "Route must have an id"]
  ELSE IF validateRoute(route) # ""
    THEN [routes |-> rs, err |-> validateRoute(route)]
  ELSE [routes |-> mapSet(rs, route.id, route), err |-> ""]

\* addRoute: the registry after the call and the error thrown ("" for none)
addRoute(rs, route) ==
  IF FalsyStr(route, "id")
    THEN [routes |-> rs, err |-> "Route must have an id"]
  ELSE IF mapHas(rs, route.id)
    THEN [routes |-> rs, err |-> "Route already exists"]
  ELSE IF validateRoute(route) # ""
    THEN [routes |-> rs, err |-> validateRoute(route)]
  ELSE [routes |-> mapSet(rs, route.id, route), err |-> ""]

\* addRoutes: addRoute on each element in turn; the first throw ends the loop
RECURSIVE addRoutes(_, _)
addRoutes(rs, batch) ==
  IF batch = << >> THEN [routes |-> rs, err |-> ""]
  ELSE LET r == addRoute(rs, Head(batch))
       IN IF r.err # "" THEN r ELSE addRoutes(r.routes, Tail(batch))

\* updateRoute with the id spread before the updates: { ...existingRoute, id, ...updates }
updateRoute_IdFirst(rs, id, updates) ==
  IF ~mapHas(rs, id)
    THEN [routes |-> rs, err |-> "Route not found"]
  ELSE LET updatedRoute == Spread(Spread(mapGet(rs, id), [id |-> id]), updates)
       IN IF validateRoute(updatedRoute) # ""
            THEN [routes |-> rs, err |-> validateRoute(updatedRoute)]
            ELSE [routes |-> mapSet(rs, id, updatedRoute), err |-> ""]

\* updateRoute without its existence check: a missing id is created from the updates
updateRoute_Upsert(rs, id, updates) ==
  LET existingRoute == IF mapHas(rs, id) THEN mapGet(rs, id) ELSE EmptyObj
      updatedRoute == Spread(Spread(existingRoute, updates), [id |-> id])
  IN IF validateRoute(updatedRoute) # ""
       THEN [routes |-> rs, err |-> validateRoute(updatedRoute)]
       ELSE [routes |-> mapSet(rs, id, updatedRoute), err |-> ""]

\* updateRoute: { ...existingRoute, ...updates, id }
updateRoute(rs, id, updates) ==
  IF ~mapHas(rs, id)
    THEN [routes |-> rs, err |-> "Route not found"]
  ELSE LET updatedRoute == Spread(Spread(mapGet(rs, id), updates), [id |-> id])
       IN IF validateRoute(updatedRoute) # ""
            THEN [routes |-> rs, err |-> validateRoute(updatedRoute)]
            ELSE [routes |-> mapSet(rs, id, updatedRoute), err |-> ""]

removeRoute(rs, id) == [routes |-> mapDelete(rs, id), ret |-> mapHas(rs, id)]

RECURSIVE removeRoutes(_, _)
removeRoutes(rs, ids) ==
  IF ids = << >> THEN rs ELSE removeRoutes(mapDelete(rs, Head(ids)), Tail(ids))

clearAll(rs) == << >>

getAllRoutes(rs) == [i \in DOMAIN rs |-> rs[i].value]

\* One feature of toGeoJSON
routeFeature(route) ==
  [type |-> "Feature",
   geometry |-> [type |-> "LineString", coordinates |-> route.coordinates],
   properties |->
     Spread([id |-> route.id,
             name |-> route.name,
             color |-> IF FalsyStr(route, "color") THEN DefaultColor ELSE route.color,
             lineWidth |-> IF FalsyNum(route, "lineWidth") THEN DefaultLineWidth
                           ELSE route.lineWidth],
            IF Has(route, "properties") THEN route.properties ELSE EmptyObj)]

toGeoJSON(rs) ==
  [type |-> "FeatureCollection",
   features |-> [i \in DOMAIN getAllRoutes(rs) |-> routeFeature(getAllRoutes(rs)[i])]]

----------------------------------------------------------------------------
(* Inputs: the routes, updates and ids the callers pass *)

Good == << <<-75, 45>>, <<-76, 46>> >>
Edge == << <<0 - LngMax, 0 - LatMax>>, <<LngMax, LatMax>> >>
BadCoordinates ==
  { << <<LngMax + 1, 0>>, <<0, 0>> >>,            \* longitude too large
    << <<0, 0>>, <<0 - LngMax - 1, 0>> >>,        \* longitude too small
    << <<0, LatMax + 1>>, <<0, 0>> >>,            \* latitude too large
    << <<0, 0>>, <<0, 0 - LatMax - 1>> >>,        \* latitude too small
    << <<NaN, 0>>, <<0, 0>> >> }                  \* longitude NaN
MalformedCoordinates ==
  { << <<0, 0>> >>,                               \* fewer than two points
    << <<0, 0>>, <<1>> >> }                       \* a pair that is no pair

Ids == {"a", "b"}
MissingId == "c"

ValidRoutes ==
  { [id |-> "a", name |-> "A", coordinates |-> Good],
    [id |-> "a", name |-> "A", coordinates |-> Edge, color |-> "#0066FF", lineWidth |-> 5],
    [id |-> "b", name |-> "B", coordinates |-> Good, color |-> "", lineWidth |-> 0,
     properties |-> [note |-> "x"]],
    [id |-> "b", name |-> "B", coordinates |-> Good, color |-> "#0066FF",
     properties |-> [id |-> "zz", color |-> "#00FF00"]] }

RouteInputs ==
  ValidRoutes
  \cup { [id |-> "b", name |-> "B", coordinates |-> c] : c \in BadCoordinates \cup MalformedCoordinates }
  \cup { [id |-> "", name |-> "E", coordinates |-> Good],      \* empty id
         [name |-> "E", coordinates |-> Good],                 \* no id
         [id |-> "b", name |-> "B"] }                          \* no coordinates

UpdateInputs ==
  { [id |-> "b", name |-> "A9"],                               \* an updates object carrying an id
    [coordinates |-> Edge],
    [coordinates |-> << <<LngMax + 1, 0>>, <<0, 0>> >>],       \* longitude too large
    [coordinates |-> << <<0, 0>>, <<0, 0 - LatMax - 1>> >>],   \* latitude too small
    [coordinates |-> << <<NaN, 0>>, <<0, 0>> >>],              \* longitude NaN
    [coordinates |-> << <<0, 0>> >>] }                         \* fewer than two points

BatchRoutes ==
  { [id |-> "a", name |-> "A", coordinates |-> Good],
    [id |-> "b", name |-> "B", coordinates |-> Good, properties |-> [note |-> "x"]],
    [id |-> "b", name |-> "B", coordinates |-> << <<0, LatMax + 1>>, <<0, 0>> >>] }

\* The arrays of at most n elements of S
SeqsUpTo(S, n) == UNION { [1..k -> S] : k \in 0..n }

----------------------------------------------------------------------------
(* The registry alone: a RoutesManager and its callers *)

Call(op, arg, threw, ret) == [op |-> op, arg |-> arg, threw |-> threw, ret |-> ret]

\* No Map component in use
MapIdle ==
  /\ mapRef = FALSE /\ isMapReadyRef = FALSE /\ styleLoaded = FALSE /\ loadFired = FALSE
  /\ hasSource = FALSE /\ sourceData = [type |-> "FeatureCollection", features |-> << >>] /\ onceLoad = << >>
  /\ timers = << >> /\ owed = {} /\ hookHist = "none"
  /\ daData = [type |-> "FeatureCollection", features |-> << >>] /\ daOnceLoad = << >>
  /\ daOwed = {} /\ calls = 0

\* new RoutesManager(initialRoutes): the constructor throws when addRoutes does
InitRegistry ==
  /\ \E initialRoutes \in SeqsUpTo(BatchRoutes, MaxBatch) :
       /\ addRoutes(<< >>, initialRoutes).err = ""
       /\ routes = addRoutes(<< >>, initialRoutes).routes
       /\ last = Call("constructor", initialRoutes, FALSE, 0)
  /\ MapIdle

AddRoute(route) ==
  /\ routes' = addRoute(routes, route).routes
  /\ last' = Call("addRoute", route, addRoute(routes, route).err # "", 0)
  /\ UNCHANGED mapVars

AddRoutes(batch) ==
  /\ routes' = addRoutes(routes, batch).routes
  /\ last' = Call("addRoutes", batch, addRoutes(routes, batch).err # "", 0)
  /\ UNCHANGED mapVars

UpdateRoute(id, updates) ==
  /\ routes' = updateRoute(routes, id, updates).routes
  /\ last' = Call("updateRoute", [id |-> id, updates |-> updates],
                  updateRoute(routes, id, updates).err # "", 0)
  /\ UNCHANGED mapVars

RemoveRoute(id) ==
  /\ routes' = removeRoute(routes, id).routes
  /\ last' = Call("removeRoute", id, FALSE, removeRoute(routes, id).ret)
  /\ UNCHANGED mapVars

RemoveRoutes(ids) ==
  /\ routes' = removeRoutes(routes, ids)
  /\ last' = Call("removeRoutes", ids, FALSE, 0)
  /\ UNCHANGED mapVars

ClearAll ==
  /\ routes' = clearAll(routes)
  /\ last' = Call("clearAll", 0, FALSE, 0)
  /\ UNCHANGED mapVars

ToGeoJSON ==
  /\ last' = Call("toGeoJSON", 0, FALSE, toGeoJSON(routes))
  /\ UNCHANGED << routes, mapVars >>

NextRegistry ==
  \/ \E route \in RouteInputs : AddRoute(route)
  \/ \E batch \in SeqsUpTo(BatchRoutes, MaxBatch) : AddRoutes(batch)
  \/ \E id \in Ids \cup {MissingId}, updates \in UpdateInputs : UpdateRoute(id, updates)
  \/ \E id \in Ids \cup {MissingId} : RemoveRoute(id)
  \/ \E ids \in SeqsUpTo(Ids \cup {MissingId}, MaxBatch) : RemoveRoutes(ids)
  \/ ClearAll
  \/ ToGeoJSON

SpecRegistry == InitRegistry /\ [][NextRegistry]_vars

----------------------------------------------------------------------------
(* The Map component (Map.tsx) and the useRoutes hook, with time in ticks of 50 ms *)

RetryTicks == 1      \* setTimeout(() => tryUpdate(), 50)
AfterLoadTicks == 2  \* setTimeout(() => tryUpdate(), 100) in loadDABoundaries' waitForLoad
FallbackTicks == 2   \* setTimeout(..., 100) in updateRoutes
SyncTicks == 2       \* setTimeout(attemptSync, 100) in syncRoutesToMap

EMPTY_ROUTES == [type |-> "FeatureCollection", features |-> << >>]
EMPTY_BOUNDARIES == [type |-> "FeatureCollection", features |-> << >>]

Delay(kind) ==
  CASE kind = "tryUpdate" -> RetryTicks
    [] kind = "fallback" -> FallbackTicks
    [] kind = "attemptSync" -> SyncTicks
    [] kind = "daRetry" -> RetryTicks
    [] kind = "daFallback" -> FallbackTicks
    [] kind = "daAfterLoad" -> AfterLoadTicks

\* A pending setTimeout callback; data is the geoJSON its closure holds
Timer(kind, data) == [kind |-> kind, data |-> data, left |-> Delay(kind)]

Pending == Len(timers) + Len(onceLoad) + Len(daOnceLoad)

\* Whether some pending callback still holds geoJSON g
Carried(g) ==
  \/ \E i \in DOMAIN timers : timers[i].kind \in {"tryUpdate", "fallback"} /\ timers[i].data = g
  \/ \E i \in DOMAIN onceLoad : onceLoad[i] = g

\* The seq without its i-th element
Without(seq, i) == [j \in 1..(Len(seq) - 1) |-> IF j < i THEN seq[j] ELSE seq[j + 1]]

\* The history variable owed after updateRoutes(geoJSON) found no source: it keeps
\* the earliest payload that is still to be set
Owe(geoJSON) == IF owed = {} THEN {geoJSON} ELSE owed

\* updateRoutes without its first line, if (!mapRef.current) return
updateRoutes_NoMapCheck(geoJSON, ts) ==
  IF isMapReadyRef
    THEN IF mapRef /\ hasSource
           THEN /\ sourceData' = geoJSON
                /\ timers' = ts
                /\ owed' = owed \ {geoJSON}
                /\ UNCHANGED onceLoad
           ELSE /\ timers' = Append(ts, Timer("tryUpdate", geoJSON))
                /\ owed' = Owe(geoJSON)
                /\ UNCHANGED << sourceData, onceLoad >>
  ELSE IF ~styleLoaded
    THEN /\ onceLoad' = Append(onceLoad, geoJSON)
         /\ timers' = ts
         /\ owed' = IF hasSource THEN owed ELSE Owe(geoJSON)
         /\ UNCHANGED sourceData
  ELSE /\ timers' = Append(ts, Timer("fallback", geoJSON))
       /\ owed' = IF hasSource THEN owed ELSE Owe(geoJSON)
       /\ UNCHANGED << sourceData, onceLoad >>

\* MapRef.updateRoutes(geoJSON), run with ts as the other pending timers
updateRoutes(geoJSON, ts) ==
  IF ~mapRef
    THEN timers' = ts /\ UNCHANGED << sourceData, onceLoad, owed >>
  ELSE IF isMapReadyRef
    THEN IF hasSource
           THEN /\ sourceData' = geoJSON
                /\ timers' = ts
                /\ owed' = owed \ {geoJSON}
                /\ UNCHANGED onceLoad
           ELSE /\ timers' = Append(ts, Timer("tryUpdate", geoJSON))
                /\ owed' = Owe(geoJSON)
                /\ UNCHANGED << sourceData, onceLoad >>
  ELSE IF ~styleLoaded
    THEN /\ onceLoad' = Append(onceLoad, geoJSON)
         /\ timers' = ts
         /\ owed' = IF hasSource THEN owed ELSE Owe(geoJSON)
         /\ UNCHANGED sourceData
  ELSE /\ timers' = Append(ts, Timer("fallback", geoJSON))
       /\ owed' = IF hasSource THEN owed ELSE Owe(geoJSON)
       /\ UNCHANGED << sourceData, onceLoad >>

\* syncRoutesToMap of the hook
syncRoutesToMap ==
  IF ~mapRef
    THEN UNCHANGED timers
    ELSE timers' = Append(timers, Timer("attemptSync", EMPTY_ROUTES))

\* A hook callback that syncs in a finally block: also after the registry threw
reachesSync_Always(res) == TRUE

\* Whether the hook's callback goes on to syncRoutesToMap after the registry call
reachesSync(res) == res.err = ""

\* A mutating callback of the hook: the registry call, then syncRoutesToMap.
\* The call is recorded with the registry's error in ret, and whether the callback threw.
HookCall(op, res) ==
  /\ Pending < MaxPending
  /\ routes' = res.routes
  /\ last' = Call(op, 0, res.err # "", res.err)
  /\ IF reachesSync(res) THEN syncRoutesToMap ELSE UNCHANGED timers
  /\ hookHist' = IF mapRef /\ hasSource /\ hookHist # "other" THEN "onLoaded" ELSE "other"
  /\ UNCHANGED << mapRef, isMapReadyRef, styleLoaded, loadFired, hasSource,
                  sourceData, onceLoad, owed, daVars >>

HookRoutes ==
  { [id |-> "a", name |-> "A", coordinates |-> Good],
    [id |-> "b", name |-> "B", coordinates |-> << <<0, LatMax + 1>>, <<0, 0>> >>] }
HookBatches ==
  { << [id |-> "a", name |-> "A", coordinates |-> Good],
       [id |-> "b", name |-> "B", coordinates |-> Good, properties |-> [note |-> "x"]] >>,
    << [id |-> "a", name |-> "A", coordinates |-> Good],
       [id |-> "b", name |-> "B", coordinates |-> << <<0, LatMax + 1>>, <<0, 0>> >>] >> }
HookUpdates == { [id |-> "b", lineWidth |-> 6], [coordinates |-> << <<0, 0>> >>] }
HookUpdateIds == {"a", MissingId}
HookRemoveIds == { <<"a", "b">>, <<"b", MissingId>> }

HookAddRoute(route) == HookCall("hook.addRoute", addRoute(routes, route))

HookAddRoutes(batch) == HookCall("hook.addRoutes", addRoutes(routes, batch))

HookUpdateRoute(id, updates) == HookCall("hook.updateRoute", updateRoute(routes, id, updates))

HookRemoveRoute(id) ==
  HookCall("hook.removeRoute", [routes |-> removeRoute(routes, id).routes, err |-> ""])

HookRemoveRoutes(ids) ==
  HookCall("hook.removeRoutes", [routes |-> removeRoutes(routes, ids), err |-> ""])

HookClearAllRoutes ==
  HookCall("hook.clearAllRoutes", [routes |-> clearAll(routes), err |-> ""])

\* The timer at place i is the next to fire: it is due, and no timer set before it
\* with a delay at most its own is still pending
MayFire(i) ==
  /\ timers[i].left = 0
  /\ \A j \in 1..(i - 1) : Delay(timers[j].kind) > Delay(timers[i].kind)

\* attemptSync of the hook, 100 ms after syncRoutesToMap
FireAttemptSync(i) ==
  /\ i \in DOMAIN timers /\ MayFire(i) /\ timers[i].kind = "attemptSync"
  /\ last' = Call("timer.attemptSync", 0, FALSE, "")
  /\ IF ~mapRef
       THEN timers' = Without(timers, i) /\ UNCHANGED << sourceData, onceLoad, owed >>
       ELSE updateRoutes(toGeoJSON(routes), Without(timers, i))
  /\ UNCHANGED << routes, mapRef, isMapReadyRef, styleLoaded, loadFired, hasSource, hookHist,
                  daVars >>

\* setTimeout(() => tryUpdate(), 50)
FireTryUpdate(i) ==
  /\ i \in DOMAIN timers /\ MayFire(i) /\ timers[i].kind = "tryUpdate"
  /\ last' = Call("timer.tryUpdate", 0, FALSE, "")
  /\ timers' = Without(timers, i)
  /\ IF mapRef /\ hasSource
       THEN sourceData' = timers[i].data /\ owed' = owed \ {timers[i].data}
       ELSE UNCHANGED << sourceData, owed >>
  /\ UNCHANGED << routes, mapRef, isMapReadyRef, styleLoaded, loadFired, hasSource,
                  onceLoad, hookHist, daVars >>

\* The 100 ms timer of updateRoutes: tryUpdate, and wait for 'load' when it fails
FireFallback(i) ==
  /\ i \in DOMAIN timers /\ MayFire(i) /\ timers[i].kind = "fallback"
  /\ last' = Call("timer.fallback", 0, FALSE, "")
  /\ timers' = Without(timers, i)
  /\ IF mapRef /\ hasSource
       THEN /\ sourceData' = timers[i].data
            /\ owed' = owed \ {timers[i].data}
            /\ UNCHANGED onceLoad
       ELSE /\ onceLoad' = IF mapRef THEN Append(onceLoad, timers[i].data) ELSE onceLoad
            /\ UNCHANGED << sourceData, owed >>
  /\ UNCHANGED << routes, mapRef, isMapReadyRef, styleLoaded, loadFired, hasSource, hookHist,
                  daVars >>

\* 50 ms pass: enabled when no timer is due
Tick ==
  /\ timers # << >>
  /\ \A i \in DOMAIN timers : timers[i].left > 0
  /\ timers' = [i \in DOMAIN timers |-> [timers[i] EXCEPT !.left = @ - 1]]
  /\ last' = Call("tick", 0, FALSE, "")
  /\ UNCHANGED << routes, mapRef, isMapReadyRef, styleLoaded, loadFired, hasSource,
                  sourceData, onceLoad, owed, hookHist, daVars >>

\* The mount effect of Map: a new map instance, when there is none
Mount ==
  /\ ~mapRef
  /\ mapRef' = TRUE
  /\ last' = Call("mount", 0, FALSE, "")
  /\ UNCHANGED << routes, isMapReadyRef, styleLoaded, loadFired, hasSource,
                  sourceData, onceLoad, timers, owed, hookHist, daVars >>

\* The cleanup of the mount effect: map.remove(), mapRef.current = null
Unmount ==
  /\ mapRef
  /\ mapRef' = FALSE
  /\ styleLoaded' = FALSE /\ loadFired' = FALSE /\ hasSource' = FALSE
  /\ sourceData' = EMPTY_ROUTES /\ onceLoad' = << >>
  /\ owed' = {}
  /\ hookHist' = IF hookHist = "none" THEN "none" ELSE "other"
  /\ daData' = EMPTY_BOUNDARIES /\ daOnceLoad' = << >> /\ daOwed' = {}
  /\ last' = Call("unmount", 0, FALSE, "")
  /\ UNCHANGED << routes, isMapReadyRef, timers, calls >>

\* The style of the current map finishes loading
StyleLoads ==
  /\ mapRef /\ ~styleLoaded
  /\ styleLoaded' = TRUE
  /\ last' = Call("styleLoads", 0, FALSE, "")
  /\ UNCHANGED << routes, mapRef, isMapReadyRef, loadFired, hasSource,
                  sourceData, onceLoad, timers, owed, hookHist, daVars >>

\* The map's 'load' event: the handler of the mount effect, then the once-listeners
Load ==
  /\ mapRef /\ ~loadFired /\ styleLoaded
  /\ loadFired' = TRUE
  /\ hasSource' = TRUE
  /\ sourceData' = EMPTY_ROUTES
  /\ isMapReadyRef' = TRUE
  /\ daData' = EMPTY_BOUNDARIES
  /\ timers' = timers \o [i \in DOMAIN onceLoad |-> Timer("tryUpdate", onceLoad[i])]
                      \o [i \in DOMAIN daOnceLoad |-> Timer("daAfterLoad", daOnceLoad[i])]
  /\ onceLoad' = << >>
  /\ daOnceLoad' = << >>
  /\ last' = Call("load", 0, FALSE, "")
  /\ UNCHANGED << routes, mapRef, styleLoaded, owed, hookHist, daOwed, calls >>

\* App: useRoutes(mapRef) with no initial routes, and the Map just mounted
InitHook ==
  /\ routes = addRoutes(<< >>, << >>).routes
  /\ last = Call("constructor", 0, FALSE, "")
  /\ mapRef = TRUE /\ isMapReadyRef = FALSE /\ styleLoaded = FALSE /\ loadFired = FALSE
  /\ hasSource = FALSE /\ sourceData = EMPTY_ROUTES /\ onceLoad = << >>
  /\ timers = << >> /\ owed = {} /\ hookHist = "none"
  /\ daData = EMPTY_BOUNDARIES /\ daOnceLoad = << >> /\ daOwed = {} /\ calls = 0

NextHook ==
  \/ \E route \in HookRoutes : HookAddRoute(route)
  \/ \E batch \in HookBatches : HookAddRoutes(batch)
  \/ \E id \in HookUpdateIds, updates \in HookUpdates : HookUpdateRoute(id, updates)
  \/ \E id \in {"b", MissingId} : HookRemoveRoute(id)
  \/ \E ids \in HookRemoveIds : HookRemoveRoutes(ids)
  \/ HookClearAllRoutes
  \/ \E i \in 1..MaxPending : FireAttemptSync(i) \/ FireTryUpdate(i) \/ FireFallback(i)
  \/ Tick
  \/ Mount
  \/ Unmount
  \/ StyleLoads
  \/ Load

SpecHook == InitHook /\ [][NextHook]_vars

----------------------------------------------------------------------------
(* The GeoJSON helpers: normalizeGeoJSON, fetchGeoJSON and the reprojection of the
   boundary polygons (geoTransform.ts) *)

MaxFeatures == 3   \* most features in a collection given to the helpers

\* The callback of normalizeGeoJSON's map: properties || {}, then the two defaults
normalizeFeature(feature, defaultColor, defaultLineWidth) ==
  LET properties == IF Has(feature, "properties") THEN feature.properties ELSE EmptyObj
      withColor == IF FalsyStr(properties, "color")
                     THEN Spread(properties, [color |-> defaultColor])
                     ELSE properties
      withWidth == IF FalsyNum(withColor, "lineWidth")
                     THEN Spread(withColor, [lineWidth |-> defaultLineWidth])
                     ELSE withColor
  IN Spread(feature, [properties |-> withWidth])

normalizeGeoJSON(geoJSON, defaultColor, defaultLineWidth) ==
  [type |-> "FeatureCollection",
   features |-> [i \in DOMAIN geoJSON.features |->
                   normalizeFeature(geoJSON.features[i], defaultColor, defaultLineWidth)]]

\* proj4('EPSG:3347', 'EPSG:4326', [x, y]) with the definition the module registers
\* (origin 49N 95W, no false easting or northing), on the points the model uses, in
\* metres and whole degrees; any other point stands for an input on which the
\* library's inverse yields NaN
proj4(x, y) ==
  CASE << x, y >> = << 0, 0 >> -> << -95, 49 >>
    [] << x, y >> = << 1578126, -198242 >> -> << -75, 45 >>
    [] << x, y >> = << 1468445, -114633 >> -> << -76, 46 >>
    [] OTHER -> << NaN, NaN >>

\* transformCoordinates3347To4326: whether it throws, and the pair it returns
transformCoordinates3347To4326(coordinates) ==
  IF Len(coordinates) < 2 \/ coordinates[1] = NaN \/ coordinates[2] = NaN
    THEN [threw |-> TRUE, val |-> << >>]
  ELSE LET out == proj4(coordinates[1], coordinates[2])
       IN IF out[1] = NaN \/ out[2] = NaN
            THEN [threw |-> TRUE, val |-> << >>]
            ELSE [threw |-> FALSE, val |-> out]

transformCoordinateArray(coordinates) ==
  [threw |-> \E i \in DOMAIN coordinates : transformCoordinates3347To4326(coordinates[i]).threw,
   val |-> [i \in DOMAIN coordinates |-> transformCoordinates3347To4326(coordinates[i]).val]]

transformPolygonCoordinates(coordinates) ==
  [threw |-> \E i \in DOMAIN coordinates : transformCoordinateArray(coordinates[i]).threw,
   val |-> [i \in DOMAIN coordinates |-> transformCoordinateArray(coordinates[i]).val]]

\* The callback without its try/catch: a failing coordinate throws out of the map
transformFeature_NoCatch(feature) ==
  IF feature.geometry.type = "Polygon"
    THEN IF transformPolygonCoordinates(feature.geometry.coordinates).threw
           THEN [null |-> FALSE, threw |-> TRUE, val |-> feature]
           ELSE [null |-> FALSE, threw |-> FALSE,
                 val |-> Spread(feature,
                           [geometry |->
                              Spread(feature.geometry,
                                     [coordinates |->
                                        transformPolygonCoordinates(feature.geometry.coordinates).val])])]
    ELSE [null |-> FALSE, threw |-> FALSE, val |-> feature]

\* The callback of transformGeoJSON3347To4326's map: the feature it returns, or null
\* from its catch block
transformFeature(feature) ==
  IF feature.geometry.type = "Polygon"
    THEN IF transformPolygonCoordinates(feature.geometry.coordinates).threw
           THEN [null |-> TRUE, threw |-> FALSE, val |-> feature]
           ELSE [null |-> FALSE, threw |-> FALSE,
                 val |-> Spread(feature,
                           [geometry |->
                              Spread(feature.geometry,
                                     [coordinates |->
                                        transformPolygonCoordinates(feature.geometry.coordinates).val])])]
    ELSE [null |-> FALSE, threw |-> FALSE, val |-> feature]

\* The map, then the filter of the nulls
mapAndFilter(features) ==
  LET mapped == [i \in DOMAIN features |-> transformFeature(features[i])]
      kept == SelectSeq(mapped, LAMBDA m : ~m.null)
  IN [threw |-> \E i \in DOMAIN mapped : mapped[i].threw,
      val |-> [i \in DOMAIN kept |-> kept[i].val]]

\* transformGeoJSON3347To4326: whether the call throws, and the collection it returns
transformGeoJSON3347To4326(geoJSON) ==
  [threw |-> mapAndFilter(geoJSON.features).threw,
   val |-> Spread(geoJSON, [features |-> mapAndFilter(geoJSON.features).val])]

\* Inputs of the helpers
LineCoords == << << -75, 45 >>, << -76, 46 >> >>
LineFeature(props) ==
  [type |-> "Feature", geometry |-> [type |-> "LineString", coordinates |-> LineCoords],
   properties |-> props]
LineFeatures ==
  { [type |-> "Feature", geometry |-> [type |-> "LineString", coordinates |-> LineCoords]],
    LineFeature([name |-> "R1"]),
    LineFeature([color |-> "#0066FF"]),
    LineFeature([lineWidth |-> 2]),
    LineFeature([color |-> "#0066FF", lineWidth |-> 2]),
    LineFeature([color |-> "", lineWidth |-> 0]) }
GivenColors == { DefaultColor, "#00FF00" }
GivenLineWidths == { DefaultLineWidth, 2 }

GoodRing == << << 0, 0 >>, << 1578126, -198242 >>, << 1468445, -114633 >>, << 0, 0 >> >>
OtherRing == << << 1468445, -114633 >>, << 0, 0 >>, << 1578126, -198242 >>, << 1468445, -114633 >> >>
PolygonFeature(name, ring) ==
  [type |-> "Feature", geometry |-> [type |-> "Polygon", coordinates |-> << ring >>],
   properties |-> [DAUID |-> name]]
PolygonFeatures ==
  { PolygonFeature("A", GoodRing),
    PolygonFeature("B", OtherRing),
    PolygonFeature("N", << << 0, 0 >>, << NaN, 5 >>, << 0, 0 >> >>),        \* a NaN ordinate
    PolygonFeature("S", << << 0, 0 >>, << 7 >>, << 0, 0 >> >>),             \* y is undefined
    PolygonFeature("F", << << 0, 0 >>, << 9000000, 9000000 >>, << 0, 0 >> >>),  \* proj4 yields NaN
    [type |-> "Feature",
     geometry |-> [type |-> "MultiPolygon", coordinates |-> << << << << NaN, 5 >> >> >> >>],
     properties |-> [DAUID |-> "M"]] }

Collection(features) == [type |-> "FeatureCollection", features |-> features]

\* The caller holds a collection of routes, or of boundaries, to hand to a helper
InitGeo ==
  /\ routes = << >>
  /\ \/ \E fs \in SeqsUpTo(LineFeatures, MaxFeatures), c \in GivenColors, w \in GivenLineWidths :
          last = Call("given.routes",
                      [geoJSON |-> Collection(fs), defaultColor |-> c, defaultLineWidth |-> w],
                      FALSE, 0)
     \/ \E fs \in SeqsUpTo(PolygonFeatures, MaxFeatures) :
          last = Call("given.boundaries", Collection(fs), FALSE, 0)
  /\ MapIdle

NormalizeGeoJSON ==
  /\ last.op = "given.routes"
  /\ last' = Call("normalizeGeoJSON", last.arg, FALSE,
                  normalizeGeoJSON(last.arg.geoJSON, last.arg.defaultColor,
                                   last.arg.defaultLineWidth))
  /\ UNCHANGED << routes, mapVars >>

TransformGeoJSON3347To4326 ==
  /\ last.op = "given.boundaries"
  /\ last' = Call("transformGeoJSON3347To4326", last.arg,
                  transformGeoJSON3347To4326(last.arg).threw,
                  transformGeoJSON3347To4326(last.arg).val)
  /\ UNCHANGED << routes, mapVars >>

NextGeo ==
  \/ NormalizeGeoJSON
  \/ TransformGeoJSON3347To4326

SpecGeo == InitGeo /\ [][NextGeo]_vars

----------------------------------------------------------------------------
(* One Map instance from its mount to its unmount, with its callers: the hook's
   loadGeoJSONFromURL and loadGeoJSON, and MapRef's updateRoutes, clearRoutes,
   loadDABoundaries and clearDABoundaries called directly.  The k-th collection of
   routes handed to the map carries version k, so that pushes can be told apart. *)

MaxCalls == 2      \* most calls of updateRoutes on the map

\* The collection of routes the k-th caller holds
RoutesVersion(k) == Collection(<< LineFeature([id |-> "r", version |-> k]) >>)

\* The version of a collection of routes on the source
Version(geoJSON) == geoJSON.features[1].properties.version

\* The boundaries App passes: the transformed file
Boundaries ==
  { transformGeoJSON3347To4326(
      Collection(<< PolygonFeature("A", GoodRing),
                    PolygonFeature("N", << << 0, 0 >>, << NaN, 5 >>, << 0, 0 >> >>) >>)).val }

\* What fetch(url) resolves to: ok, statusText and the parsed body; a response
\* without a body is one whose json() rejects
Responses(k) ==
  { [ok |-> TRUE, statusText |-> "OK", body |-> RoutesVersion(k)],
    [ok |-> FALSE, statusText |-> "Not Found", body |-> RoutesVersion(k)],
    [ok |-> TRUE, statusText |-> "OK",
     body |-> [type |-> "Feature", features |-> RoutesVersion(k).features]],
    [ok |-> TRUE, statusText |-> "OK"] }

\* fetchGeoJSON without its response.ok test
fetchGeoJSON_NoOkCheck(response, defaultColor, defaultLineWidth) ==
  IF ~Has(response, "body")
    THEN [err |-> "Unexpected end of JSON input", val |-> EMPTY_ROUTES]
  ELSE IF response.body.type # "FeatureCollection"
    THEN [err |-> "Invalid GeoJSON: Expected FeatureCollection", val |-> EMPTY_ROUTES]
  ELSE [err |-> "", val |-> normalizeGeoJSON(response.body, defaultColor, defaultLineWidth)]

\* fetchGeoJSON, from the response on: the message of the error it rejects with
\* ("" for none) and the collection it resolves to
fetchGeoJSON(response, defaultColor, defaultLineWidth) ==
  IF ~response.ok
    THEN [err |-> "Failed to fetch GeoJSON: " \o response.statusText, val |-> EMPTY_ROUTES]
  ELSE IF ~Has(response, "body")
    THEN [err |-> "Unexpected end of JSON input", val |-> EMPTY_ROUTES]
  ELSE IF response.body.type # "FeatureCollection"
    THEN [err |-> "Invalid GeoJSON: Expected FeatureCollection", val |-> EMPTY_ROUTES]
  ELSE [err |-> "", val |-> normalizeGeoJSON(response.body, defaultColor, defaultLineWidth)]

\* MapRef.updateRoutes called by a holder of the handle
UpdateRoutes(op, arg, geoJSON) ==
  /\ calls < MaxCalls
  /\ Pending < MaxPending
  /\ updateRoutes(geoJSON, timers)
  /\ calls' = IF mapRef THEN calls + 1 ELSE calls
  /\ last' = Call(op, arg, FALSE, "")
  /\ UNCHANGED << routes, mapRef, isMapReadyRef, styleLoaded, loadFired, hasSource, hookHist,
                  daData, daOnceLoad, daOwed >>

\* useRoutes.loadGeoJSONFromURL, from the moment fetch resolves
LoadGeoJSONFromURL(response) ==
  IF fetchGeoJSON(response, DefaultColor, DefaultLineWidth).err # ""
    THEN /\ last' = Call("hook.loadGeoJSONFromURL", response, TRUE,
                         fetchGeoJSON(response, DefaultColor, DefaultLineWidth).err)
         /\ UNCHANGED << routes, mapVars >>
    ELSE UpdateRoutes("hook.loadGeoJSONFromURL", response,
                      fetchGeoJSON(response, DefaultColor, DefaultLineWidth).val)

\* useRoutes.loadGeoJSON
LoadGeoJSON(geoJSON) ==
  UpdateRoutes("hook.loadGeoJSON", geoJSON,
               normalizeGeoJSON(geoJSON, DefaultColor, DefaultLineWidth))

\* MapRef.clearRoutes
ClearRoutes ==
  /\ sourceData' = IF mapRef /\ hasSource THEN EMPTY_ROUTES ELSE sourceData
  /\ last' = Call("clearRoutes", 0, FALSE, "")
  /\ UNCHANGED << routes, mapRef, isMapReadyRef, styleLoaded, loadFired, hasSource,
                  onceLoad, timers, owed, hookHist, daVars >>

\* MapRef.loadDABoundaries(geoJSON)
loadDABoundaries(geoJSON) ==
  IF ~mapRef
    THEN UNCHANGED << daData, daOnceLoad, timers, daOwed >>
  ELSE IF isMapReadyRef /\ styleLoaded
    THEN IF hasSource
           THEN /\ daData' = geoJSON
                /\ daOwed' = daOwed \ {geoJSON}
                /\ UNCHANGED << daOnceLoad, timers >>
           ELSE /\ timers' = Append(timers, Timer("daRetry", geoJSON))
                /\ daOwed' = daOwed \cup {geoJSON}
                /\ UNCHANGED << daData, daOnceLoad >>
  ELSE IF ~styleLoaded
    THEN /\ daOnceLoad' = Append(daOnceLoad, geoJSON)
         /\ daOwed' = daOwed \cup {geoJSON}
         /\ UNCHANGED << daData, timers >>
  ELSE /\ timers' = Append(timers, Timer("daFallback", geoJSON))
       /\ daOwed' = daOwed \cup {geoJSON}
       /\ UNCHANGED << daData, daOnceLoad >>

LoadDABoundaries(geoJSON) ==
  /\ Pending < MaxPending
  /\ loadDABoundaries(geoJSON)
  /\ last' = Call("loadDABoundaries", geoJSON, FALSE, "")
  /\ UNCHANGED << routes, mapRef, isMapReadyRef, styleLoaded, loadFired, hasSource,
                  sourceData, onceLoad, owed, hookHist, calls >>

\* MapRef.clearDABoundaries
ClearDABoundaries ==
  /\ daData' = IF mapRef /\ hasSource THEN EMPTY_BOUNDARIES ELSE daData
  /\ last' = Call("clearDABoundaries", 0, FALSE, "")
  /\ UNCHANGED << routes, mapRef, isMapReadyRef, styleLoaded, loadFired, hasSource,
                  sourceData, onceLoad, timers, owed, hookHist, daOnceLoad, daOwed, calls >>

\* The timers of loadDABoundaries that only run tryUpdate: the 50 ms retry and the
\* 100 ms timer set by the 'load' listener
FireDATryUpdate(i) ==
  /\ i \in DOMAIN timers /\ MayFire(i) /\ timers[i].kind \in {"daRetry", "daAfterLoad"}
  /\ last' = Call("timer.daTryUpdate", 0, FALSE, "")
  /\ timers' = Without(timers, i)
  /\ IF mapRef /\ hasSource
       THEN daData' = timers[i].data /\ daOwed' = daOwed \ {timers[i].data}
       ELSE UNCHANGED << daData, daOwed >>
  /\ UNCHANGED << routes, mapRef, isMapReadyRef, styleLoaded, loadFired, hasSource,
                  sourceData, onceLoad, owed, hookHist, daOnceLoad, calls >>

\* The 100 ms timer of loadDABoundaries: tryUpdate, and waitForLoad when it fails
FireDAFallback(i) ==
  /\ i \in DOMAIN timers /\ MayFire(i) /\ timers[i].kind = "daFallback"
  /\ last' = Call("timer.daFallback", 0, FALSE, "")
  /\ timers' = Without(timers, i)
  /\ IF mapRef /\ hasSource
       THEN /\ daData' = timers[i].data
            /\ daOwed' = daOwed \ {timers[i].data}
            /\ UNCHANGED daOnceLoad
       ELSE /\ daOnceLoad' = IF mapRef THEN Append(daOnceLoad, timers[i].data) ELSE daOnceLoad
            /\ UNCHANGED << daData, daOwed >>
  /\ UNCHANGED << routes, mapRef, isMapReadyRef, styleLoaded, loadFired, hasSource,
                  sourceData, onceLoad, owed, hookHist, calls >>

\* A source of the loaded map reloads its data: isStyleLoaded() answers false until
\* it has finished
StyleBusy ==
  /\ mapRef /\ loadFired /\ styleLoaded
  /\ styleLoaded' = FALSE
  /\ last' = Call("styleBusy", 0, FALSE, "")
  /\ UNCHANGED << routes, mapRef, isMapReadyRef, loadFired, hasSource,
                  sourceData, onceLoad, timers, owed, hookHist, daVars >>

\* useRoutes(mapRef) with no initial routes, and the Map just mounted
InitMap ==
  /\ routes = << >>
  /\ last = Call("constructor", 0, FALSE, "")
  /\ mapRef = TRUE /\ isMapReadyRef = FALSE /\ styleLoaded = FALSE /\ loadFired = FALSE
  /\ hasSource = FALSE /\ sourceData = EMPTY_ROUTES /\ onceLoad = << >>
  /\ timers = << >> /\ owed = {} /\ hookHist = "none"
  /\ daData = EMPTY_BOUNDARIES /\ daOnceLoad = << >> /\ daOwed = {} /\ calls = 0

NextMap ==
  \/ UpdateRoutes("updateRoutes", RoutesVersion(calls + 1), RoutesVersion(calls + 1))
  \/ \E response \in Responses(calls + 1) : LoadGeoJSONFromURL(response)
  \/ LoadGeoJSON(RoutesVersion(calls + 1))
  \/ ClearRoutes
  \/ \E geoJSON \in Boundaries : LoadDABoundaries(geoJSON)
  \/ ClearDABoundaries
  \/ \E i \in 1..MaxPending :
       \/ FireTryUpdate(i)
       \/ FireFallback(i)
       \/ FireDATryUpdate(i)
       \/ FireDAFallback(i)
  \/ Tick
  \/ Unmount
  \/ StyleLoads
  \/ StyleBusy
  \/ Load

SpecMap == InitMap /\ [][NextMap]_vars

----------------------------------------------------------------------------
(* Properties of the registry, checked under SpecRegistry *)

\* A [longitude, latitude] pair inside the valid ranges
InRange(c) ==
  /\ Len(c) = 2
  /\ c[1] \in (0 - LngMax)..LngMax
  /\ c[2] \in (0 - LatMax)..LatMax

\* Some pair of the coordinates has a longitude or a latitude outside its range
OutOfRange(cs) == \E i \in DOMAIN cs : Len(cs[i]) = 2 /\ ~InRange(cs[i])

CarriesOutOfRange(call) ==
  \/ /\ call.op = "addRoute"
     /\ Has(call.arg, "coordinates")
     /\ OutOfRange(call.arg.coordinates)
  \/ /\ call.op = "updateRoute"
     /\ Has(call.arg.updates, "coordinates")
     /\ OutOfRange(call.arg.updates.coordinates)

\* C1: addRoute, and updateRoute with new coordinates, throw whenever a coordinate
\* pair has a longitude outside [-180,180] or a latitude outside [-90,90], and the
\* registry is then what it was before the call.
C1_RejectsOutOfRange ==
  [][CarriesOutOfRange(last') => (last'.threw /\ routes' = routes)]_vars

\* C2: addRoute of a route whose id is already in the registry throws and leaves
\* every stored route as it was, whatever calls came before.
C2_RejectsDuplicate ==
  [][(/\ last'.op = "addRoute"
      /\ ~FalsyStr(last'.arg, "id")
      /\ mapHas(routes, last'.arg.id))
     => (last'.threw /\ routes' = routes)]_vars

\* C2 witness: an otherwise valid route was refused because its id is taken by a
\* stored route that differs from it.
C2_Witness ==
  /\ last.op = "addRoute"
  /\ last.threw
  /\ ~FalsyStr(last.arg, "id")
  /\ validateRoute(last.arg) = ""
  /\ mapHas(routes, last.arg.id)
  /\ mapGet(routes, last.arg.id) # last.arg
  /\ Len(routes) = 2

\* C3: every route stored under key k has id k; updateRoute(id, updates) stores a
\* route whose id is the id argument, also when updates carries an id of its own.
C3_KeyIsId ==
  /\ \A i \in DOMAIN routes :
       Has(routes[i].value, "id") /\ routes[i].value.id = routes[i].key
  /\ (last.op = "updateRoute" /\ ~last.threw) =>
       (mapHas(routes, last.arg.id) /\ mapGet(routes, last.arg.id).id = last.arg.id)

\* C3 witness: an update whose updates object carries another id went through.
C3_Witness ==
  /\ last.op = "updateRoute"
  /\ ~last.threw
  /\ Has(last.arg.updates, "id")
  /\ last.arg.updates.id # last.arg.id
  /\ mapGet(routes, last.arg.id).name = last.arg.updates.name

\* C4: every stored route has at least two coordinates, each with a longitude in
\* [-180,180] and a latitude in [-90,90].
C4_StoredRoutesValid ==
  \A i \in DOMAIN routes :
    /\ Has(routes[i].value, "coordinates")
    /\ Len(routes[i].value.coordinates) >= 2
    /\ \A j \in DOMAIN routes[i].value.coordinates :
         InRange(routes[i].value.coordinates[j])

\* C5: toGeoJSON returns one LineString feature per stored route, whose coordinates
\* are the route's and whose properties.id and properties.name are the route's id
\* and name, metadata or not.
C5_GeoJSONRoundTrips ==
  last.op = "toGeoJSON" =>
    /\ last.ret.type = "FeatureCollection"
    /\ Len(last.ret.features) = Len(routes)
    /\ \A i \in DOMAIN routes :
         LET f == last.ret.features[i]
             r == routes[i].value
         IN /\ f.type = "Feature"
            /\ f.geometry.type = "LineString"
            /\ f.geometry.coordinates = r.coordinates
            /\ f.properties.id = r.id
            /\ f.properties.name = r.name

\* C6: the feature's color is the route's color when the route has one and
\* '#FF0000' otherwise; its lineWidth is the route's lineWidth when the route has
\* one and 4 otherwise.
C6_GeoJSONDefaults ==
  last.op = "toGeoJSON" =>
    \A i \in DOMAIN routes :
      LET f == last.ret.features[i]
          r == routes[i].value
      IN /\ f.properties.color = IF Has(r, "color") THEN r.color ELSE DefaultColor
         /\ f.properties.lineWidth =
              IF Has(r, "lineWidth") THEN r.lineWidth ELSE DefaultLineWidth

\* C7: addRoute of a route with an empty id and updateRoute of an id that is not in
\* the registry throw and leave the registry unchanged; updateRoute never creates
\* a route.
C7_MissingIdThrows ==
  [][/\ (last'.op = "addRoute" /\ FalsyStr(last'.arg, "id"))
        => (last'.threw /\ routes' = routes)
     /\ (last'.op = "updateRoute" /\ ~mapHas(routes, last'.arg.id))
        => (last'.threw /\ routes' = routes /\ ~mapHas(routes', last'.arg.id))]_vars

\* C7 witness: a valid update of an id the (non-empty) registry does not hold threw.
C7_Witness ==
  /\ last.op = "updateRoute"
  /\ last.threw
  /\ ~mapHas(routes, last.arg.id)
  /\ validateRoute(Spread([coordinates |-> Good], last.arg.updates)) = ""
  /\ routes # << >>

\* C12: after addRoutes either every route of the batch is in the registry, or the
\* call threw and the registry is exactly what it was before the call.
C12_AddRoutesAllOrNothing ==
  [][last'.op = "addRoutes" =>
       IF last'.threw
         THEN routes' = routes
         ELSE \A i \in DOMAIN last'.arg : mapHas(routes', last'.arg[i].id)]_vars


----------------------------------------------------------------------------
(* Properties of the GeoJSON helpers, checked under SpecGeo *)

\* Every coordinate of a Polygon feature goes through transformCoordinates3347To4326
Transforms(feature) ==
  feature.geometry.type = "Polygon" =>
    \A r \in DOMAIN feature.geometry.coordinates :
      \A k \in DOMAIN feature.geometry.coordinates[r] :
        ~transformCoordinates3347To4326(feature.geometry.coordinates[r][k]).threw

\* The feature with each coordinate of its rings reprojected
Reprojected(feature) ==
  IF feature.geometry.type = "Polygon"
    THEN [feature EXCEPT !.geometry.coordinates =
            [r \in DOMAIN @ |->
               [k \in DOMAIN @[r] |-> transformCoordinates3347To4326(@[r][k]).val]]]
    ELSE feature

\* C13: transformGeoJSON3347To4326 never throws because of a bad coordinate, and its
\* output holds, in their original order, exactly the input features whose
\* coordinates all transform (reprojected), plus the non-Polygon features unchanged.
C13_SkipsFailedFeatures ==
  last.op = "transformGeoJSON3347To4326" =>
    LET kept == SelectSeq(last.arg.features, Transforms)
    IN /\ ~last.threw
       /\ last.ret.type = "FeatureCollection"
       /\ last.ret.features = [i \in DOMAIN kept |-> Reprojected(kept[i])]

\* C13 witness: of three Polygon features the middle one failed and was skipped,
\* and the two others came out reprojected in their order.
C13_Witness ==
  /\ last.op = "transformGeoJSON3347To4326"
  /\ Len(last.arg.features) = 3
  /\ \A i \in 1..3 : last.arg.features[i].geometry.type = "Polygon"
  /\ Transforms(last.arg.features[1])
  /\ ~Transforms(last.arg.features[2])
  /\ Transforms(last.arg.features[3])
  /\ last.arg.features[1] # last.arg.features[3]
  /\ Len(last.ret.features) = 2
  /\ last.ret.features[1].properties = last.arg.features[1].properties
  /\ last.ret.features[2].properties = last.arg.features[3].properties
  /\ last.ret.features[1].geometry.coordinates[1][2] = << -75, 45 >>

\* C14: every output feature of normalizeGeoJSON has a color and a lineWidth: the
\* feature's own when it has one, the given default otherwise; the features keep
\* their number and order; normalizing the output again returns an equal collection.
C14_NormalizeKeepsOrDefaults ==
  last.op = "normalizeGeoJSON" =>
    LET in == last.arg.geoJSON
        out == last.ret
    IN /\ Len(out.features) = Len(in.features)
       /\ \A i \in DOMAIN in.features :
            LET given == IF Has(in.features[i], "properties")
                           THEN in.features[i].properties ELSE EmptyObj
                got == out.features[i].properties
            IN /\ out.features[i].geometry = in.features[i].geometry
               /\ Has(got, "color") /\ Has(got, "lineWidth")
               /\ got.color = IF Has(given, "color") THEN given.color
                              ELSE last.arg.defaultColor
               /\ got.lineWidth = IF Has(given, "lineWidth") THEN given.lineWidth
                                  ELSE last.arg.defaultLineWidth
       /\ normalizeGeoJSON(out, last.arg.defaultColor, last.arg.defaultLineWidth) = out

----------------------------------------------------------------------------
(* Properties of the hook and the Map component, checked under SpecHook *)

\* C8: when the registry throws inside the hook's addRoute, addRoutes or
\* updateRoute, the hook's callback throws too and that call neither schedules
\* nor performs a push to the map.
C8_HookPropagates ==
  [][(/\ last'.op \in {"hook.addRoute", "hook.addRoutes", "hook.updateRoute"}
      /\ last'.ret # "")
     => (/\ last'.threw
         /\ timers' = timers
         /\ onceLoad' = onceLoad
         /\ sourceData' = sourceData)]_vars

\* C8 witness: on a loaded map with nothing pending, an addRoutes of the hook threw
\* after the registry had taken a route of the batch.
C8_Witness ==
  /\ last.op = "hook.addRoutes"
  /\ last.threw
  /\ routes # << >>
  /\ mapRef /\ hasSource
  /\ timers = << >>

\* C9: after hook mutations made on a mounted map whose load event has fired,
\* once no timer is pending the data of the 'routes' source is toGeoJSON of the
\* registry's contents.
C9_SyncedWhenQuiet ==
  (/\ hookHist = "onLoaded"
   /\ mapRef /\ hasSource
   /\ timers = << >> /\ onceLoad = << >>)
  => sourceData = toGeoJSON(routes)

\* C10: a geoJSON given to updateRoutes while the mounted map had no 'routes'
\* source is, once the load event has fired and without an unmount in between,
\* either set on the source already or still held by a pending timer or listener
\* (so that it is set when that one runs).
C10_SetOrStillPending ==
  (mapRef /\ loadFired) => \A g \in owed : Carried(g)

\* C18: whenever isMapReadyRef is true, the current map instance exists and has its
\* 'routes' source attached, across every sequence of mount, load, unmount and
\* re-mount.
C18_ReadyImpliesSource ==
  isMapReadyRef => (mapRef /\ hasSource)

----------------------------------------------------------------------------
(* Properties of one Map instance and its callers, checked under SpecMap *)

\* C11: fetchGeoJSON throws when the response is not ok, with the response's status
\* text, and when the body's type is not 'FeatureCollection'; loadGeoJSONFromURL then
\* rejects without calling updateRoutes, and the 'routes' source is left unchanged.
C11_FetchFailuresThrow ==
  [][last'.op = "hook.loadGeoJSONFromURL" =>
       /\ ~last'.arg.ok =>
            /\ last'.threw
            /\ last'.ret = "Failed to fetch GeoJSON: " \o last'.arg.statusText
       /\ (last'.arg.ok /\ Has(last'.arg, "body")
           /\ last'.arg.body.type # "FeatureCollection") =>
            /\ last'.threw
            /\ last'.ret = "Invalid GeoJSON: Expected FeatureCollection"
       /\ last'.threw =>
            /\ sourceData' = sourceData
            /\ timers' = timers
            /\ onceLoad' = onceLoad
            /\ calls' = calls]_vars

\* C11 witness: a 404 was rejected while the loaded map showed routes pushed before.
C11_Witness ==
  /\ last.op = "hook.loadGeoJSONFromURL"
  /\ last.threw
  /\ ~last.arg.ok
  /\ last.ret = "Failed to fetch GeoJSON: Not Found"
  /\ mapRef /\ hasSource
  /\ sourceData # EMPTY_ROUTES

\* Whether a pending timer of loadDABoundaries still holds boundaries g
DACarried(g) ==
  \E i \in DOMAIN timers :
    timers[i].kind \in {"daRetry", "daFallback", "daAfterLoad"} /\ timers[i].data = g

\* C16: boundaries given to loadDABoundaries on a mounted map are set on the
\* 'da-boundaries' source in the end, whatever state the map was in at the call:
\* once the load event has fired, and with no unmount since the call, they are
\* either set already or still held by a pending timer that will set them.
C16_BoundariesSetOrPending ==
  (mapRef /\ loadFired) => \A g \in daOwed : DACarried(g)

\* C17: on one mounted map, the data of an earlier updateRoutes call is never set
\* on the 'routes' source after the data of a later call, and once nothing is
\* pending the source holds the data of the latest call.
C17_PushesInOrder ==
  [][/\ (mapRef /\ sourceData # EMPTY_ROUTES /\ sourceData' # EMPTY_ROUTES)
        => Version(sourceData') >= Version(sourceData)
     /\ (mapRef' /\ hasSource' /\ timers' = << >> /\ onceLoad' = << >>
         /\ sourceData' # EMPTY_ROUTES)
        => Version(sourceData') = calls']_vars

\* C19: while the component is unmounted no step sets data on a source or
\* registers a listener or a timer: the callbacks left pending run without effect
\* and the MapRef methods are no-ops.
C19_InertAfterUnmount ==
  [][~mapRef =>
       /\ sourceData' = sourceData
       /\ daData' = daData
       /\ onceLoad' = onceLoad
       /\ daOnceLoad' = daOnceLoad
       /\ Len(timers') <= Len(timers)
       /\ calls' = calls]_vars

\* C19 witness: after the unmount of a loaded map, with a timer of an earlier call
\* still pending, updateRoutes was called and did nothing.
C19_Witness ==
  /\ ~mapRef
  /\ isMapReadyRef
  /\ last.op = "updateRoutes"
  /\ timers # << >>
  /\ calls = 1

====
